---- MODULE Spec2Model ----
(***************************************************************************)
(* Model of github.com/amasanelli/cron: the cron expression compiler       *)
(* (Parse, parseField, parseFieldPart, buildBitset) and the occurrence     *)
(* search (Cron.Next) of cron.go.                                          *)
(*                                                                         *)
(* A text is a sequence of one-character strings.  A bitset is the set of  *)
(* its set bit positions.  An instant is a number of minutes since         *)
(* 2000-01-01 00:00 UTC; a reference instant is a number of seconds.      *)
(***************************************************************************)
EXTENDS Integers, Sequences, FiniteSets, TLC

(***************************************************************************)
(* Texts (package strings, strconv, fmt as used by cron.go)                *)
(***************************************************************************)
Digits == <<"0", "1", "2", "3", "4", "5", "6", "7", "8", "9">>

IsDigit(c) == \E k \in 1..10 : Digits[k] = c

DigitVal(c) == (CHOOSE k \in 1..10 : Digits[k] = c) - 1

RECURSIVE DigitsVal(_, _)
DigitsVal(s, acc) ==
    IF s = <<>> THEN acc ELSE DigitsVal(Tail(s), acc * 10 + DigitVal(Head(s)))

\* strconv.Atoi: an optional sign, then one or more decimal digits
Atoi(s) ==
    LET signed == s # <<>> /\ Head(s) \in {"+", "-"}
        body   == IF signed THEN Tail(s) ELSE s
    IN  IF body = <<>> \/ \E k \in 1..Len(body) : ~IsDigit(body[k])
        THEN [ok |-> FALSE, val |-> 0]
        ELSE [ok |-> TRUE,
              val |-> IF signed /\ Head(s) = "-"
                      THEN 0 - DigitsVal(body, 0) ELSE DigitsVal(body, 0)]

\* fmt.Sprintf("%d", n) for n >= 0
RECURSIVE Itoa(_)
Itoa(n) == IF n < 10 THEN <<Digits[n + 1]>> ELSE Itoa(n \div 10) \o <<Digits[(n % 10) + 1]>>

\* strings.Split(s, sep) for a one-character separator: k separators give k+1 pieces
RECURSIVE SplitFrom(_, _, _)
SplitFrom(s, sep, cur) ==
    IF s = <<>> THEN <<cur>>
    ELSE IF Head(s) = sep THEN <<cur>> \o SplitFrom(Tail(s), sep, <<>>)
    ELSE SplitFrom(Tail(s), sep, Append(cur, Head(s)))

Split(s, sep) == SplitFrom(s, sep, <<>>)

\* strings.Fields(strings.TrimSpace(s)): the maximal runs of non-space characters
RECURSIVE FieldsFrom(_, _)
FieldsFrom(s, cur) ==
    IF s = <<>> THEN (IF cur = <<>> THEN <<>> ELSE <<cur>>)
    ELSE IF Head(s) = " "
         THEN (IF cur = <<>> THEN <<>> ELSE <<cur>>) \o FieldsFrom(Tail(s), <<>>)
    ELSE FieldsFrom(Tail(s), Append(cur, Head(s)))

Fields(s) == FieldsFrom(s, <<>>)

\* strings.Replace(s, old, new, 1) for a one-character old: the first occurrence only
RECURSIVE ReplaceFirst(_, _, _)
ReplaceFirst(s, old, new) ==
    IF s = <<>> THEN <<>>
    ELSE IF Head(s) = old THEN new \o Tail(s)
    ELSE <<Head(s)>> \o ReplaceFirst(Tail(s), old, new)

(***************************************************************************)
(* Field bounds                                                            *)
(***************************************************************************)
yearLimit == 5

boundMinute == [min |-> 0, max |-> 59]
boundHour   == [min |-> 0, max |-> 24]
boundDOM    == [min |-> 1, max |-> 31]
boundMonth  == [min |-> 1, max |-> 12]
boundDOW    == [min |-> 0, max |-> 6]

\* the bounds Parse passes for fields[0] .. fields[4]
FieldBound == <<boundMinute, boundHour, boundDOM, boundMonth, boundDOW>>

(***************************************************************************)
(* The field compiler.  A compilation ends in one of four ways:            *)
(*   "bitset"   it returns a bitset                                        *)
(*   "invalid"  it returns ErrInvalidExpression                            *)
(*   "panic"    buildBitset shifts by a negative count (run-time panic)    *)
(*   "diverges" buildBitset's loop never ends (i += 0)                     *)
(***************************************************************************)
Invalid == [kind |-> "invalid", bits |-> {}]

\* buildBitset: "for i := min; i <= max; i += step { b = b | (1 << i) }".
\* With step > 0 the k-th pass sets bit min + k*step while that is <= max.
\* With step = 0 the loop never ends.  With step < 0 the loop counts down
\* from min >= 0 and shifts by a negative count, which panics.
buildBitset(min, max, step) ==
    IF min > max THEN [kind |-> "bitset", bits |-> {}]
    ELSE IF step = 0 THEN [kind |-> "diverges", bits |-> {}]
    ELSE IF step < 0 THEN [kind |-> "panic", bits |-> {}]
    ELSE [kind |-> "bitset", bits |-> {min + k * step : k \in 0..((max - min) \div step)}]

\* an asterisk rewrite that stops one short of the upper bound
ReplaceStarShort(fPart, fBounds) ==
    ReplaceFirst(fPart, "*", Itoa(fBounds.min) \o <<"-">> \o Itoa(fBounds.max - 1))

\* the asterisk rewrite: the first "*" becomes "min-max"
ReplaceStar(fPart, fBounds) ==
    ReplaceFirst(fPart, "*", Itoa(fBounds.min) \o <<"-">> \o Itoa(fBounds.max))

\* the step of a part: 1 when absent
StepOf(rangeAndStep) ==
    IF Len(rangeAndStep) = 2 THEN Atoi(rangeAndStep[2]) ELSE [ok |-> TRUE, val |-> 1]

\* the range checks of parseFieldPart, given begin and end
RangeChecked(begin, end, rangeAndStep, fBounds) ==
    IF end > fBounds.max \/ end < fBounds.min THEN Invalid
    ELSE IF end < begin THEN Invalid
    ELSE IF ~StepOf(rangeAndStep).ok THEN Invalid
    ELSE buildBitset(begin, end, StepOf(rangeAndStep).val)

parseFieldPart(fPart, fBounds) ==
    LET newexpr      == ReplaceStar(fPart, fBounds)
        rangeAndStep == Split(newexpr, "/")
        hasStep      == Len(rangeAndStep) = 2
        lowAndHigh   == Split(rangeAndStep[1], "-")
        begin        == Atoi(lowAndHigh[1])
    IN  IF Len(rangeAndStep) > 2 THEN Invalid
        ELSE IF Len(lowAndHigh) > 2 THEN Invalid
        ELSE IF ~begin.ok THEN Invalid
        ELSE IF begin.val > fBounds.max \/ begin.val < fBounds.min THEN Invalid
        ELSE IF Len(lowAndHigh) = 1 /\ hasStep
             THEN RangeChecked(begin.val, fBounds.max, rangeAndStep, fBounds)
        ELSE IF Len(lowAndHigh) = 1
             THEN RangeChecked(begin.val, begin.val, rangeAndStep, fBounds)
        ELSE IF ~Atoi(lowAndHigh[2]).ok THEN Invalid
        ELSE RangeChecked(begin.val, Atoi(lowAndHigh[2]).val, rangeAndStep, fBounds)

\* the loop of parseField over fieldParts[k..], result being the OR so far
RECURSIVE parseParts(_, _, _, _)
parseParts(fieldParts, k, fBounds, result) ==
    IF k > Len(fieldParts) THEN [kind |-> "bitset", bits |-> result]
    ELSE LET partial == parseFieldPart(fieldParts[k], fBounds)
         IN  IF partial.kind # "bitset" THEN partial
             ELSE parseParts(fieldParts, k + 1, fBounds, result \cup partial.bits)

parseField(field, fBounds) == parseParts(Split(field, ","), 1, fBounds, {})

(***************************************************************************)
(* Calendar (package time as used by Cron.Next): proleptic Gregorian dates *)
(* in a fixed-offset location.  Days count from 2000-01-01, a Saturday.    *)
(***************************************************************************)
IsLeap(y) == (y % 4 = 0 /\ y % 100 # 0) \/ y % 400 = 0

DaysIn(y, m) ==
    IF m = 2 THEN (IF IsLeap(y) THEN 29 ELSE 28)
    ELSE IF m \in {4, 6, 9, 11} THEN 30 ELSE 31

LeapsBefore(y) == ((y - 1) \div 4) - ((y - 1) \div 100) + ((y - 1) \div 400)

DaysBeforeYear(y) == 365 * (y - 2000) + LeapsBefore(y) - LeapsBefore(2000)

RECURSIVE DaysBeforeMonth(_, _)
DaysBeforeMonth(y, m) == IF m = 1 THEN 0 ELSE DaysBeforeMonth(y, m - 1) + DaysIn(y, m - 1)

\* the civil date of a day number
YearOfDay(d) ==
    LET y0 == 2000 + (d \div 366)
    IN  IF d >= DaysBeforeYear(y0 + 1) THEN y0 + 1 ELSE y0

MonthOfDay(d) ==
    LET y == YearOfDay(d)
        r == d - DaysBeforeYear(y)
    IN  CHOOSE m \in 1..12 : DaysBeforeMonth(y, m) <= r /\ r < DaysBeforeMonth(y, m) + DaysIn(y, m)

DomOfDay(d) ==
    LET y == YearOfDay(d)
    IN  d - DaysBeforeYear(y) - DaysBeforeMonth(y, MonthOfDay(d)) + 1

\* time.Weekday: Sunday = 0 .. Saturday = 6
WeekdayOfDay(d) == (d + 6) % 7

\* time.Date(year, month, day, hour, min, 0, 0, loc) as an instant; month, day,
\* hour and min may lie outside their usual ranges and are normalised
Date(year, month, day, hour, min, off) ==
    LET y == year + ((month - 1) \div 12)
        m == ((month - 1) % 12) + 1
    IN  (DaysBeforeYear(y) + DaysBeforeMonth(y, m) + day - 1) * 1440 + hour * 60 + min - off

\* the fields of instant t in the location with offset off (t.Year(), t.Month(), ...)
LocalDay(t, off) == (t + off) \div 1440
Year(t, off)     == YearOfDay(LocalDay(t, off))
Month(t, off)    == MonthOfDay(LocalDay(t, off))
Day(t, off)      == DomOfDay(LocalDay(t, off))
Weekday(t, off)  == WeekdayOfDay(LocalDay(t, off))
Hour(t, off)     == ((t + off) % 1440) \div 60
Minute(t, off)   == (t + off) % 60

\* t.AddDate(years, months, days)
AddDate(t, off, years, months, days) ==
    Date(Year(t, off) + years, Month(t, off) + months, Day(t, off) + days,
         Hour(t, off), Minute(t, off), off)

\* bits.Len(uint(b)): the position of the highest set bit plus one, 0 for no bit
BitsLen(b) == IF b = {} THEN 0 ELSE (CHOOSE i \in b : \A j \in b : j <= i) + 1

\* the scan "for i = from; i < bitsLen; i++ { if b&(1<<i) != 0 { break } }":
\* the value of i after it
ScanFrom(b, from) ==
    LET hits == {j \in b : j >= from}
    IN  IF hits # {} THEN CHOOSE j \in hits : \A k \in hits : j <= k
        ELSE IF from > BitsLen(b) THEN from ELSE BitsLen(b)

(***************************************************************************)
(* Parse: the schedule compiler                                            *)
(***************************************************************************)
NoCron == [minute |-> {}, hour |-> {}, dom |-> {}, month |-> {}, dow |-> {}, tz |-> 0]

\* the five parseField calls of Parse from fields[k] on; done holds the bitsets so far
RECURSIVE parseFields(_, _, _)
parseFields(fields, k, done) ==
    IF k > 5 THEN [kind |-> "cron", fields |-> done]
    ELSE LET r == parseField(fields[k], FieldBound[k])
         IN  IF r.kind # "bitset" THEN [kind |-> r.kind, fields |-> <<>>]
             ELSE parseFields(fields, k + 1, Append(done, r.bits))

Parse(expr, tz) ==
    LET fields == Fields(expr)
    IN  IF Len(fields) # 5 THEN [kind |-> "invalid", cron |-> NoCron]
        ELSE LET r == parseFields(fields, 1, <<>>)
             IN  IF r.kind # "cron" THEN [kind |-> r.kind, cron |-> NoCron]
                 ELSE [kind |-> "cron",
                       cron |-> [minute |-> r.fields[1], hour |-> r.fields[2],
                                 dom |-> r.fields[3], month |-> r.fields[4],
                                 dow |-> r.fields[5], tz |-> tz]]

(***************************************************************************)
(* Cron.Next, stage by stage.  A search state is                           *)
(*   [t, resetted, maxYear, at] with at the place control is at:           *)
(*   "loop" (the loop label), "month", "day", "hour", "minute" (the four   *)
(*   stages), "done" (return t, nil), "err" (return ErrMaxYearLimit).      *)
(***************************************************************************)
\* the reference instant's year in location off (t = t.In(s.tz); t.Year())
RefYear(ref, off) == Year(ref \div 60, off)

\* t.Truncate(time.Minute).Add(1 * time.Minute)
FirstCandidate(ref) == (ref \div 60) + 1

\* an entry that truncates to the minute and does not add the minute
EnterSameMinute(c, ref) ==
    [t |-> ref \div 60, resetted |-> FALSE,
     maxYear |-> RefYear(ref, c.tz) + yearLimit, at |-> "loop"]

\* entry of Next up to the loop label
Enter(c, ref) ==
    [t |-> FirstCandidate(ref), resetted |-> FALSE,
     maxYear |-> RefYear(ref, c.tz) + yearLimit, at |-> "loop"]

\* a horizon check that lets one more year through
LoopStepLate(c, st) ==
    IF Year(st.t, c.tz) > st.maxYear + 1 THEN [st EXCEPT !.at = "err"]
    ELSE [st EXCEPT !.at = "month"]

\* the loop label: the horizon check
LoopStep(c, st) ==
    IF Year(st.t, c.tz) > st.maxYear THEN [st EXCEPT !.at = "err"]
    ELSE [st EXCEPT !.at = "month"]

\* a month stage whose carry goes back to January 1st of the same year
MonthStepSameYear(c, st) ==
    LET off == c.tz
        t   == st.t
    IN  IF Month(t, off) \in c.month THEN [st EXCEPT !.at = "day"]
        ELSE [st EXCEPT !.resetted = TRUE, !.at = "loop",
                        !.t = Date(Year(t, off), 1, 1, 0, 0, off)]

\* the month stage
MonthStep(c, st) ==
    LET off  == c.tz
        t    == st.t
        year == Year(t, off)
        i    == ScanFrom(c.month, Month(t, off) + 1)
        t1   == IF ~st.resetted THEN Date(Year(t, off), Month(t, off), 1, 0, 0, off) ELSE t
        t2   == AddDate(t1, off, 0, i - Month(t1, off), 0)
    IN  IF Month(t, off) \in c.month THEN [st EXCEPT !.at = "day"]
        ELSE IF i >= BitsLen(c.month)
             THEN [st EXCEPT !.resetted = TRUE, !.at = "loop",
                             !.t = AddDate(Date(Year(t, off), 1, 1, 0, 0, off), off, 1, 0, 0)]
        ELSE [st EXCEPT !.resetted = TRUE, !.t = t2,
                        !.at = IF Year(t2, off) # year THEN "loop" ELSE "day"]

\* a day stage whose carry goes to day 1 of the same month
DayStepSameMonth(c, st) ==
    LET off   == c.tz
        t     == st.t
        month == Month(t, off)
        i     == ScanFrom(c.dom, Day(t, off) + 1)
        t1    == IF ~st.resetted
                 THEN Date(Year(t, off), Month(t, off), Day(t, off), 0, 0, off) ELSE t
        t2    == AddDate(t1, off, 0, 0, i - Day(t1, off))
    IN  IF Day(t, off) \in c.dom /\ Weekday(t, off) \in c.dow THEN [st EXCEPT !.at = "hour"]
        ELSE IF i >= BitsLen(c.dom)
             THEN [st EXCEPT !.resetted = TRUE, !.at = "loop",
                             !.t = Date(Year(t, off), Month(t, off), 1, 0, 0, off)]
        ELSE [st EXCEPT !.resetted = TRUE, !.t = t2,
                        !.at = IF Month(t2, off) # month THEN "loop" ELSE "hour"]

\* the day stage
DayStep(c, st) ==
    LET off   == c.tz
        t     == st.t
        month == Month(t, off)
        i     == ScanFrom(c.dom, Day(t, off) + 1)
        t1    == IF ~st.resetted
                 THEN Date(Year(t, off), Month(t, off), Day(t, off), 0, 0, off) ELSE t
        t2    == AddDate(t1, off, 0, 0, i - Day(t1, off))
    IN  IF Day(t, off) \in c.dom /\ Weekday(t, off) \in c.dow THEN [st EXCEPT !.at = "hour"]
        ELSE IF i >= BitsLen(c.dom)
             THEN [st EXCEPT !.resetted = TRUE, !.at = "loop",
                             !.t = AddDate(Date(Year(t, off), Month(t, off), 1, 0, 0, off),
                                           off, 0, 1, 0)]
        ELSE [st EXCEPT !.resetted = TRUE, !.t = t2,
                        !.at = IF Month(t2, off) # month THEN "loop" ELSE "hour"]

\* an hour stage that hands every jump on to the minute stage
HourStepNoRecheck(c, st) ==
    LET off == c.tz
        t   == st.t
        i   == ScanFrom(c.hour, Hour(t, off) + 1)
        t1  == IF ~st.resetted
               THEN Date(Year(t, off), Month(t, off), Day(t, off), Hour(t, off), 0, off) ELSE t
        t2  == t1 + (i - Hour(t1, off)) * 60
    IN  IF Hour(t, off) \in c.hour THEN [st EXCEPT !.at = "minute"]
        ELSE IF i >= BitsLen(c.hour)
             THEN [st EXCEPT !.resetted = TRUE, !.at = "loop",
                             !.t = AddDate(Date(Year(t, off), Month(t, off), Day(t, off),
                                                0, 0, off), off, 0, 0, 1)]
        ELSE [st EXCEPT !.resetted = TRUE, !.t = t2, !.at = "minute"]

\* the hour stage
HourStep(c, st) ==
    LET off == c.tz
        t   == st.t
        day == Day(t, off)
        i   == ScanFrom(c.hour, Hour(t, off) + 1)
        t1  == IF ~st.resetted
               THEN Date(Year(t, off), Month(t, off), Day(t, off), Hour(t, off), 0, off) ELSE t
        t2  == t1 + (i - Hour(t1, off)) * 60
    IN  IF Hour(t, off) \in c.hour THEN [st EXCEPT !.at = "minute"]
        ELSE IF i >= BitsLen(c.hour)
             THEN [st EXCEPT !.resetted = TRUE, !.at = "loop",
                             !.t = AddDate(Date(Year(t, off), Month(t, off), Day(t, off),
                                                0, 0, off), off, 0, 0, 1)]
        ELSE [st EXCEPT !.resetted = TRUE, !.t = t2,
                        !.at = IF Day(t2, off) # day THEN "loop" ELSE "minute"]

\* the minute stage
MinuteStep(c, st) ==
    LET off  == c.tz
        t    == st.t
        hour == Hour(t, off)
        i    == ScanFrom(c.minute, Minute(t, off) + 1)
        t2   == t + (i - Minute(t, off))
    IN  IF Minute(t, off) \in c.minute THEN [st EXCEPT !.at = "done"]
        ELSE IF i >= BitsLen(c.minute)
             THEN [st EXCEPT !.at = "loop",
                             !.t = Date(Year(t, off), Month(t, off), Day(t, off),
                                        Hour(t, off), 0, off) + 60]
        ELSE [st EXCEPT !.t = t2, !.at = IF Hour(t2, off) # hour THEN "loop" ELSE "done"]

\* one step of the search from wherever control is at
SearchStep(c, st) ==
    CASE st.at = "loop"   -> LoopStep(c, st)
      [] st.at = "month"  -> MonthStep(c, st)
      [] st.at = "day"    -> DayStep(c, st)
      [] st.at = "hour"   -> HourStep(c, st)
      [] st.at = "minute" -> MinuteStep(c, st)
      [] OTHER            -> st

\* the search run to its end by one caller alone
RECURSIVE RunAlone(_, _)
RunAlone(c, st) == IF st.at \in {"done", "err"} THEN st ELSE RunAlone(c, SearchStep(c, st))

\* Next(ref) of schedule c, run alone
NextAlone(c, ref) == RunAlone(c, Enter(c, ref))

(***************************************************************************)
(* The earlier Next kept in cron_test.go: the same entry and loop label,   *)
(* and four stages that each advance the candidate one unit at a time in   *)
(* a `for` loop.  One step is one test of a loop condition with, when it   *)
(* fails, one pass through the loop body.                                  *)
(***************************************************************************)
OldMonthStep(c, st) ==
    LET off == c.tz
        t   == st.t
        t1  == IF ~st.resetted THEN Date(Year(t, off), Month(t, off), 1, 0, 0, off) ELSE t
        t2  == AddDate(t1, off, 0, 1, 0)
    IN  IF Month(t, off) \in c.month THEN [st EXCEPT !.at = "day"]
        ELSE [st EXCEPT !.resetted = TRUE, !.t = t2,
                        !.at = IF Year(t2, off) # Year(t, off) THEN "loop" ELSE "month"]

OldDayStep(c, st) ==
    LET off == c.tz
        t   == st.t
        t1  == IF ~st.resetted
               THEN Date(Year(t, off), Month(t, off), Day(t, off), 0, 0, off) ELSE t
        t2  == AddDate(t1, off, 0, 0, 1)
    IN  IF Day(t, off) \in c.dom /\ Weekday(t, off) \in c.dow THEN [st EXCEPT !.at = "hour"]
        ELSE [st EXCEPT !.resetted = TRUE, !.t = t2,
                        !.at = IF Month(t2, off) # Month(t, off) THEN "loop" ELSE "day"]

OldHourStep(c, st) ==
    LET off == c.tz
        t   == st.t
        t1  == IF ~st.resetted
               THEN Date(Year(t, off), Month(t, off), Day(t, off), Hour(t, off), 0, off) ELSE t
        t2  == t1 + 60
    IN  IF Hour(t, off) \in c.hour THEN [st EXCEPT !.at = "minute"]
        ELSE [st EXCEPT !.resetted = TRUE, !.t = t2,
                        !.at = IF Day(t2, off) # Day(t, off) THEN "loop" ELSE "hour"]

OldMinuteStep(c, st) ==
    LET off == c.tz
        t   == st.t
        t2  == t + 1
    IN  IF Minute(t, off) \in c.minute THEN [st EXCEPT !.at = "done"]
        ELSE [st EXCEPT !.t = t2,
                        !.at = IF Hour(t2, off) # Hour(t, off) THEN "loop" ELSE "minute"]

(***************************************************************************)
(* Inputs.  Expressions are written character by character.                *)
(***************************************************************************)
\* expressions Parse accepts: "0 0 1 * 1", "59 23 1 * 1", "0 0 31 2 *",
\* "0 0 1,31 2,4 3", "0 0 1,15 * 1", "0 0 1,31 * *", "* * * * *",
\* "*/20 6-18/6 * * 1-5", "0 0 29 2 *", " 0  0 1 * 1 ", "0 24 1 1 0",
\* "30 6-24/6 * * *"
GoodExprs ==
    { <<"0", " ", "0", " ", "1", " ", "*", " ", "1">>,
      <<"5", "9", " ", "2", "3", " ", "1", " ", "*", " ", "1">>,
      <<"0", " ", "0", " ", "3", "1", " ", "2", " ", "*">>,
      <<"0", " ", "0", " ", "1", ",", "3", "1", " ", "2", ",", "4", " ", "3">>,
      <<"0", " ", "0", " ", "1", ",", "1", "5", " ", "*", " ", "1">>,
      <<"0", " ", "0", " ", "1", ",", "3", "1", " ", "*", " ", "*">>,
      <<"*", " ", "*", " ", "*", " ", "*", " ", "*">>,
      <<"*", "/", "2", "0", " ", "6", "-", "1", "8", "/", "6", " ", "*", " ", "*", " ", "1", "-", "5">>,
      <<"0", " ", "0", " ", "2", "9", " ", "2", " ", "*">>,
      <<" ", "0", " ", " ", "0", " ", "1", " ", "*", " ", "1", " ">>,
      <<"0", " ", "2", "4", " ", "1", " ", "1", " ", "0">>,
      <<"3", "0", " ", "6", "-", "2", "4", "/", "6", " ", "*", " ", "*", " ", "*">> }

\* expressions with a wrong token count, a malformed part, a value out of
\* bounds, a reversed range, or a step that is zero or negative
BadExprs ==
    { <<"*", " ", "*", " ", "*", " ", "*">>,
      <<"*", " ", "*", " ", "*", " ", "*", " ", "*", " ", "*">>,
      <<>>,
      <<"6", "0", " ", "*", " ", "*", " ", "*", " ", "*">>,
      <<"5", "-", "3", " ", "*", " ", "*", " ", "*", " ", "*">>,
      <<"*", " ", "2", "5", " ", "*", " ", "*", " ", "*">>,
      <<"*", " ", "*", " ", "0", " ", "*", " ", "*">>,
      <<"*", " ", "*", " ", "3", "2", " ", "*", " ", "*">>,
      <<"*", " ", "*", " ", "*", " ", "1", "3", " ", "*">>,
      <<"*", " ", "*", " ", "*", " ", "*", " ", "7">>,
      <<"*", " ", "*", " ", "*", " ", "*", " ", "1", "-", "2", "-", "3">>,
      <<"x", " ", "*", " ", "*", " ", "*", " ", "*">>,
      <<"*", " ", "1", "/", "2", "/", "3", " ", "*", " ", "*", " ", "*">>,
      <<"*", " ", "*", " ", "1", "-", " ", "*", " ", "*">>,
      <<"*", "/", "0", " ", "*", " ", "*", " ", "*", " ", "*">>,
      <<"1", "-", "5", "/", "-", "1", " ", "*", " ", "*", " ", "*", " ", "*">>,
      <<"*", "/", "0", ",", "7", "0", " ", "*", " ", "*", " ", "*", " ", "*">>,
      <<"*", "/", "0", " ", "*", " ", "*", " ", "*", " ", "9">>,
      <<"6", "0", " ", "*", "/", "0", " ", "*", " ", "*", " ", "*">>,
      <<"*", " ", "*", " ", "*", " ", "*", " ", "5", "/", "-", "2">> }

Exprs == GoodExprs \cup BadExprs

\* the expressions of the concurrent callers' schedule:
\* "0 0 1,15 * 1", "*/20 6-18/6 * * 1-5" and "0 0 31 2 *"
ConcExprs == { <<"0", " ", "0", " ", "1", ",", "1", "5", " ", "*", " ", "1">>,
               <<"*", "/", "2", "0", " ", "6", "-", "1", "8", "/", "6", " ", "*", " ", "*", " ", "1", "-", "5">>,
               <<"0", " ", "0", " ", "3", "1", " ", "2", " ", "*">> }

\* fixed offsets east of UTC, in minutes
TZs == {0, 600}

\* a reference instant: seconds since 2000-01-01 00:00:00 UTC
RefAt(y, mo, d, h, mi, sec) == Date(y, mo, d, h, mi, 0) * 60 + sec

Refs == { RefAt(2024, 1, 15, 12, 0, 0),  RefAt(2024, 12, 31, 23, 59, 0),
          RefAt(2023, 2, 15, 10, 30, 30), RefAt(2024, 1, 1, 0, 0, 0),
          RefAt(2024, 2, 29, 23, 59, 59), RefAt(2023, 6, 30, 17, 45, 10) }

ConcRefs == { RefAt(2024, 1, 15, 12, 0, 0) }

\* field texts given to the field compiler for field kind k (1 = minute .. 5 = dow)
Star == <<"*">>

MinMax(k) == Itoa(FieldBound[k].min) \o <<"-">> \o Itoa(FieldBound[k].max)

WithStep(text, n) == text \o <<"/">> \o Itoa(n)

\* the largest step written in a field text
MaxStep == 4

\* compilations remembered in one run of the field compiler
MaxLog == 2

OtherTexts ==
    { <<"1", "-", "5", "/", "-", "1">>, <<"5", "-", "3">>, <<"6", "0">>, <<"1", ",", "3">>,
      <<"3", ",", "1", ",", "3">>, <<"7">>, <<"2", "4">>, <<"5", "/", "2">>, <<>>, <<"x">>,
      <<"1", "-", "2", "-", "3">>, <<"1", "/", "2", "/", "3">>, <<"0">>, <<"1", "*">>,
      <<"2", "/", "-", "3">>, <<"2", "-", "6", "/", "3", ",", "4">> }

FieldTexts(k) ==
    {Star, MinMax(k)} \cup {WithStep(Star, n) : n \in 0..MaxStep}
                      \cup {WithStep(MinMax(k), n) : n \in 0..MaxStep}
                      \cup OtherTexts

\* calls one caller makes in a row, each but the first fed the previous result
MaxChain == 2

\* callers sharing one schedule
NCallers == 2

(***************************************************************************)
(* State                                                                   *)
(***************************************************************************)
VARIABLES
    expr,      \* the expression text given to Parse
    tzIn,      \* the location given to Parse (its fixed offset)
    parsed,    \* "none" before Parse; then "cron", "invalid", "panic" or "diverges"
    s,         \* the *Cron Parse returned (NoCron when it returned none)
    refs,      \* the reference instants a caller may pass
    ref,       \* per caller: the reference instant of its current call
    st,        \* per caller: its search state ("idle" before its first call)
    calls,     \* per caller: the calls it has made
    kind,      \* field compiler runs: the field kind compiled (1..5)
    log        \* field compiler runs: the [text, out] pairs compiled so far

vars == <<expr, tzIn, parsed, s, refs, ref, st, calls, kind, log>>

Idle == [t |-> 0, resetted |-> FALSE, maxYear |-> 0, at |-> "idle"]

InitWith(exprs, tzs, rs, callers) ==
    /\ expr \in exprs
    /\ tzIn \in tzs
    /\ parsed = "none"
    /\ s = NoCron
    /\ refs = rs
    /\ ref = [c \in callers |-> 0]
    /\ st = [c \in callers |-> Idle]
    /\ calls = [c \in callers |-> 0]
    /\ kind = 0
    /\ log = {}

Init == InitWith(Exprs, TZs, Refs, {1})

InitConc == InitWith(ConcExprs, {600}, ConcRefs, 1..NCallers)

\* a run of the field compiler alone, on texts for one field kind
InitField ==
    /\ kind \in 1..5
    /\ log = {}
    /\ expr = <<>>
    /\ tzIn = 0
    /\ parsed = "none"
    /\ s = NoCron
    /\ refs = {}
    /\ ref = <<>>
    /\ st = <<>>
    /\ calls = <<>>

(***************************************************************************)
(* Actions                                                                 *)
(***************************************************************************)
\* Parse(expr, tz)
DoParse ==
    /\ parsed = "none"
    /\ parsed' = Parse(expr, tzIn).kind
    /\ s' = Parse(expr, tzIn).cron
    /\ UNCHANGED <<expr, tzIn, refs, ref, st, calls, kind, log>>

\* caller p runs Next(r) up to the loop label
Begin(p, r) ==
    /\ parsed = "cron"
    /\ calls[p] < MaxChain
    /\ ref' = [ref EXCEPT ![p] = r]
    /\ st' = [st EXCEPT ![p] = Enter(s, r)]
    /\ calls' = [calls EXCEPT ![p] = @ + 1]
    /\ UNCHANGED <<expr, tzIn, parsed, s, refs, kind, log>>

\* a first call, with a reference instant of the caller's choice
Call(p) ==
    /\ st[p].at = "idle"
    /\ \E r \in refs : Begin(p, r)

\* a further call, fed the instant the previous call returned
CallAgain(p) ==
    /\ st[p].at = "done"
    /\ Begin(p, st[p].t * 60)

\* a step that, on returning, clears the returned minute from the schedule
AdvanceAndClear(p, to) ==
    /\ st' = [st EXCEPT ![p] = to]
    /\ s' = IF to.at = "done" THEN [s EXCEPT !.minute = @ \ {Minute(to.t, s.tz)}] ELSE s
    /\ UNCHANGED <<expr, tzIn, parsed, refs, ref, calls, kind, log>>

\* caller p's search state becomes `to`; nothing else changes
Advance(p, to) ==
    /\ st' = [st EXCEPT ![p] = to]
    /\ UNCHANGED <<expr, tzIn, parsed, s, refs, ref, calls, kind, log>>

LoopCheck(p)   == st[p].at = "loop" /\ Advance(p, LoopStep(s, st[p]))
MonthStage(p)  == st[p].at = "month" /\ Advance(p, MonthStep(s, st[p]))
DayStage(p)    == st[p].at = "day" /\ Advance(p, DayStep(s, st[p]))
HourStage(p)   == st[p].at = "hour" /\ Advance(p, HourStep(s, st[p]))
MinuteStage(p) == st[p].at = "minute" /\ Advance(p, MinuteStep(s, st[p]))

Next ==
    \/ DoParse
    \/ \E p \in DOMAIN st : Call(p)
    \/ \E p \in DOMAIN st : CallAgain(p)
    \/ \E p \in DOMAIN st : LoopCheck(p)
    \/ \E p \in DOMAIN st : MonthStage(p)
    \/ \E p \in DOMAIN st : DayStage(p)
    \/ \E p \in DOMAIN st : HourStage(p)
    \/ \E p \in DOMAIN st : MinuteStage(p)

\* parseField(text, bounds) on a text of the caller's choice
CompileField ==
    /\ kind \in 1..5
    /\ Cardinality(log) < MaxLog
    /\ \E text \in FieldTexts(kind) :
           log' = log \cup {[text |-> text, out |-> parseField(text, FieldBound[kind])]}
    /\ UNCHANGED <<expr, tzIn, parsed, s, refs, ref, st, calls, kind>>

FieldNext == CompileField

Spec == Init /\ [][Next]_vars

FieldSpec == InitField /\ [][FieldNext]_vars

ConcSpec == InitConc /\ [][Next]_vars

(***************************************************************************)
(* The two versions of Next side by side: caller 1 runs Next of cron.go,   *)
(* then caller 2 runs the Next of cron_test.go on the same schedule and    *)
(* the same reference instant.                                             *)
(***************************************************************************)
InitBoth == InitWith(GoodExprs, TZs, Refs, {1, 2})

\* both versions are entered with the same reference instant
CallBoth ==
    /\ parsed = "cron"
    /\ \A p \in DOMAIN st : st[p].at = "idle"
    /\ \E r \in refs :
           /\ ref' = [p \in DOMAIN st |-> r]
           /\ st' = [p \in DOMAIN st |-> Enter(s, r)]
    /\ calls' = [p \in DOMAIN st |-> 1]
    /\ UNCHANGED <<expr, tzIn, parsed, s, refs, kind, log>>

\* the earlier version takes its steps once cron.go's Next has ended
OldTurn == st[1].at \in {"done", "err"}

OldLoopCheck   == OldTurn /\ LoopCheck(2)
OldMonthStage  == OldTurn /\ st[2].at = "month" /\ Advance(2, OldMonthStep(s, st[2]))
OldDayStage    == OldTurn /\ st[2].at = "day" /\ Advance(2, OldDayStep(s, st[2]))
OldHourStage   == OldTurn /\ st[2].at = "hour" /\ Advance(2, OldHourStep(s, st[2]))
OldMinuteStage == OldTurn /\ st[2].at = "minute" /\ Advance(2, OldMinuteStep(s, st[2]))

BothNext ==
    \/ DoParse
    \/ CallBoth
    \/ LoopCheck(1)
    \/ MonthStage(1)
    \/ DayStage(1)
    \/ HourStage(1)
    \/ MinuteStage(1)
    \/ OldLoopCheck
    \/ OldMonthStage
    \/ OldDayStage
    \/ OldHourStage
    \/ OldMinuteStage

BothSpec == InitBoth /\ [][BothNext]_vars

(***************************************************************************)
(* Properties                                                              *)
(***************************************************************************)
Callers == DOMAIN st

Returned(p) == st[p].at = "done"
Failed(p)   == st[p].at = "err"
Searching(p) == st[p].at \in {"loop", "month", "day", "hour", "minute"}

\* instant u satisfies all five masks of schedule c
Matches(c, u) ==
    /\ Month(u, c.tz) \in c.month
    /\ Day(u, c.tz) \in c.dom
    /\ Weekday(u, c.tz) \in c.dow
    /\ Hour(u, c.tz) \in c.hour
    /\ Minute(u, c.tz) \in c.minute

\* local day number d satisfies the month, day-of-month and day-of-week masks
DayAllowed(c, d) ==
    /\ MonthOfDay(d) \in c.month
    /\ DomOfDay(d) \in c.dom
    /\ WeekdayOfDay(d) \in c.dow

\* some minute-aligned instant u with lo < u < hi satisfies all five masks
\* (the instants are enumerated day by day, then by allowed hour and minute)
MatchBetween(c, lo, hi) ==
    \E d \in LocalDay(lo, c.tz)..LocalDay(hi, c.tz) :
        /\ DayAllowed(c, d)
        /\ \E h \in c.hour \cap (0..23) : \E m \in c.minute \cap (0..59) :
               LET u == d * 1440 + h * 60 + m - c.tz
               IN  lo < u /\ u < hi

\* the first instant after the horizon year of caller p's search
HorizonEnd(p) == Date(st[p].maxYear + 1, 1, 1, 0, 0, s.tz)

\* C1: an instant returned by Next is the earliest match: no minute-aligned
\* instant strictly between the reference instant and the result satisfies
\* all five masks.
C1_Earliest ==
    \A p \in Callers : Returned(p) => ~MatchBetween(s, ref[p] \div 60, st[p].t)

\* C2: every instant returned by Next satisfies all five masks at once, for
\* every reference instant and every result of a chain of calls.
C2_AllMasks ==
    \A p \in Callers : Returned(p) => Matches(s, st[p].t)

\* C3: the candidate is never before the first candidate (the reference
\* truncated to the minute plus one minute), and a returned instant is
\* strictly after the reference instant, so a chain of calls fed its own
\* results is strictly increasing.
C3_NotBeforeCandidate ==
    \A p \in Callers :
        /\ (Searching(p) \/ Returned(p) \/ Failed(p)) => st[p].t >= FirstCandidate(ref[p])
        /\ Returned(p) => st[p].t * 60 > ref[p]

\* a chained call returned after a stage reset the finer fields
C3_Witness ==
    \E p \in Callers : Returned(p) /\ calls[p] = 2 /\ st[p].resetted

\* no day-of-month of schedule c exists in any month of c
NeverADate(c) == \A m \in c.month : \A d \in c.dom : d > DaysIn(2024, m)

\* the order of the places of control inside one pass of the search
StageRank(at) ==
    CASE at = "loop" -> 0 [] at = "month" -> 1 [] at = "day" -> 2 [] at = "hour" -> 3
      [] at = "minute" -> 4 [] OTHER -> 5

\* search state b is further on than a: a later candidate, or the same
\* candidate at a later place of the same pass
FurtherOn(a, b) == b.t > a.t \/ (b.t = a.t /\ StageRank(b.at) > StageRank(a.at))

C5_ErrorOnlyWhenNoMatch ==
    \A p \in Callers : Failed(p) => ~MatchBetween(s, ref[p] \div 60, HorizonEnd(p))

\* the allowed values of field kind k (README, "Allowed values")
Allowed(k) == <<0..59, 0..23, 1..31, 1..12, 0..6>>[k]

\* C6: every bitset of a schedule Parse returns has bits only inside the
\* field's legal range (minute 0-59, hour 0-23, day-of-month 1-31, month
\* 1-12, day-of-week 0-6).
C6_BitsInRange ==
    parsed = "cron" =>
        /\ s.minute \subseteq Allowed(1)
        /\ s.hour \subseteq Allowed(2)
        /\ s.dom \subseteq Allowed(3)
        /\ s.month \subseteq Allowed(4)
        /\ s.dow \subseteq Allowed(5)

\* C7: the field compiler is total: every compilation returns a bitset or
\* ErrInvalidExpression; it neither hangs nor crashes.
C7_CompilerTotal ==
    \A e \in log : e.out.kind \in {"bitset", "invalid"}

\* a part of field text `field` whose range (after the asterisk rewrite) is
\* N or N-M with N or M outside the bounds, or with M < N
BadRangePart(fPart, fBounds) ==
    LET range == Split(Split(ReplaceStar(fPart, fBounds), "/")[1], "-")
        out(n) == n.ok /\ (n.val < fBounds.min \/ n.val > fBounds.max)
    IN  /\ Len(range) <= 2
        /\ \/ out(Atoi(range[1]))
           \/ Len(range) = 2 /\ out(Atoi(range[2]))
           \/ Len(range) = 2 /\ Atoi(range[1]).ok /\ Atoi(range[2]).ok
                             /\ Atoi(range[2]).val < Atoi(range[1]).val

HasBadRange(field, fBounds) ==
    \E k \in 1..Len(Split(field, ",")) : BadRangePart(Split(field, ",")[k], fBounds)

\* C8: Parse returns ErrInvalidExpression whenever the expression has not
\* exactly five tokens, or some part of some field has begin or end outside
\* the field's bounds or end < begin.
C8_Rejects ==
    parsed # "none" =>
        LET fields == Fields(expr)
        IN  (Len(fields) # 5 \/ \E k \in 1..5 : HasBadRange(fields[k], FieldBound[k]))
                => parsed = "invalid"

\* C9: `*` compiles to the same bitset as `min-max`, `*/N` to the same as
\* `min-max/N` for every N >= 1, and `*` matches all the allowed values.
C9_StarIsMinMax ==
    \A a \in log :
        /\ a.text = Star => a.out.kind = "bitset" /\ Allowed(kind) \subseteq a.out.bits
        /\ \A b \in log :
               \/ a.text = Star /\ b.text = MinMax(kind)
               \/ \E n \in 1..MaxStep :
                      a.text = WithStep(Star, n) /\ b.text = WithStep(MinMax(kind), n)
               => a.out = b.out

\* `*/N` and `min-max/N` were both compiled for some N >= 2
C9_Witness ==
    \E a \in log : \E b \in log : \E n \in 2..MaxStep :
        /\ a.text = WithStep(Star, n) /\ b.text = WithStep(MinMax(kind), n)
        /\ a.out.kind = "bitset" /\ Cardinality(a.out.bits) >= 2

\* C10: Next never changes the schedule (no step of any caller changes the
\* five bitsets or the timezone), and a call interleaved with other callers'
\* calls returns what it returns when run alone on the same reference
\* instant.
C10_ScheduleShared ==
    /\ [][parsed = "cron" => s' = s]_vars
    /\ [](\A p \in Callers :
            (Returned(p) \/ Failed(p)) =>
                LET alone == NextAlone(s, ref[p])
                IN  st[p].at = alone.at /\ (Returned(p) => st[p].t = alone.t))

\* two callers of one schedule are both inside Next, and one has returned before
C10_Witness ==
    /\ Cardinality(Callers) >= 2
    /\ \E p \in Callers : \E q \in Callers :
           /\ p # q
           /\ Returned(p) /\ calls[p] = 2
           /\ Searching(q) /\ calls[q] = 1

\* the values begin, begin+step, begin+2*step, ... up to end inclusive
Progression(begin, end, step) == {i \in begin..end : (i - begin) % step = 0}

\* what a part of a field text of field kind k stands for: "*" reads as
\* min-max; a lone number N is N..N, N/step is N..max, N-M is N..M; the
\* step defaults to 1.  A part that is none of these stands for no value.
PartValues(fPart, k) ==
    LET text   == IF fPart = Star \/ (Len(fPart) > 1 /\ fPart[1] = "*" /\ fPart[2] = "/")
                  THEN MinMax(k) \o SubSeq(fPart, 2, Len(fPart)) ELSE fPart
        halves == Split(text, "/")
        range  == Split(halves[1], "-")
        begin  == Atoi(range[1])
        end    == IF Len(range) = 2 THEN Atoi(range[2])
                  ELSE IF Len(halves) = 2 THEN [ok |-> TRUE, val |-> FieldBound[k].max]
                  ELSE begin
        step   == IF Len(halves) = 2 THEN Atoi(halves[2]) ELSE [ok |-> TRUE, val |-> 1]
    IN  IF Len(halves) <= 2 /\ Len(range) <= 2 /\ begin.ok /\ end.ok /\ step.ok /\ step.val >= 1
        THEN Progression(begin.val, end.val, step.val)
        ELSE {}

\* the parts of a field text, as a set
PartsOf(text) == {Split(text, ",")[i] : i \in 1..Len(Split(text, ","))}

\* C11: the bitset of an accepted field text is exactly the union over its
\* comma-separated parts of begin, begin+step, ... up to end inclusive, and
\* two accepted texts with the same parts in another order or repeated
\* compile to the same bitset.
C11_UnionOfParts ==
    \A a \in log :
        a.out.kind = "bitset" =>
            /\ a.out.bits = UNION {PartValues(part, kind) : part \in PartsOf(a.text)}
            /\ \A b \in log :
                   (b.out.kind = "bitset" /\ PartsOf(a.text) = PartsOf(b.text))
                       => a.out = b.out

\* the candidate u passes the day stage's test
DayPasses(c, u) == Day(u, c.tz) \in c.dom /\ Weekday(u, c.tz) \in c.dow

\* no allowed day-of-month lies above u's day within u's month
NoLaterDayInMonth(c, u) ==
    ~\E d \in c.dom : Day(u, c.tz) < d /\ d <= DaysIn(Year(u, c.tz), Month(u, c.tz))

\* day 1, 00:00 of the month after u's
FirstOfNextMonth(c, u) == Date(Year(u, c.tz), Month(u, c.tz) + 1, 1, 0, 0, c.tz)

\* C12: whenever the day stage rejects the candidate's day and no allowed
\* day-of-month lies above it within the candidate's month (also when the
\* next set bit exceeds the month's number of days), the candidate becomes
\* day 1, 00:00 of the next month and control goes back to the horizon check.
C12_DayCarry ==
    [][\A p \in Callers :
          (st[p].at = "day" /\ st'[p] # st[p]
              /\ ~DayPasses(s, st[p].t) /\ NoLaterDayInMonth(s, st[p].t))
          => (st'[p].at = "loop" /\ st'[p].t = FirstOfNextMonth(s, st[p].t))]_vars

\* the allowed months of schedule c after u's month
LaterMonths(c, u) == {m \in c.month : m > Month(u, c.tz)}

\* the first of them
NextMonth(c, u) == CHOOSE m \in LaterMonths(c, u) : \A n \in LaterMonths(c, u) : m <= n

\* C13: whenever the month stage rejects the candidate's month and a later
\* allowed month of the same year exists, the candidate becomes day 1, hour
\* 0, minute 0 of that month, on every pass through the month stage.
C13_MonthJump ==
    [][\A p \in Callers :
          (st[p].at = "month" /\ st'[p] # st[p]
              /\ Month(st[p].t, s.tz) \notin s.month /\ LaterMonths(s, st[p].t) # {})
          => st'[p].t = Date(Year(st[p].t, s.tz), NextMonth(s, st[p].t), 1, 0, 0, s.tz)]_vars

\* C14: the day stage hands a candidate on to the hour stage only if its
\* day passes both the day-of-month and the day-of-week test, also after a
\* day jump that stays inside the month.
C14_RetestAfterDayJump ==
    [][\A p \in Callers :
          (st[p].at = "day" /\ st'[p].at = "hour") => DayPasses(s, st'[p].t)]_vars

\* the horizon of caller p's call: the reference instant's year in the
\* schedule's timezone, plus 5
HorizonYear(p) == Year(ref[p] \div 60, s.tz) + 5

\* C15: the horizon is the reference year plus 5; a candidate whose year
\* exceeds it is never handed to a stage nor returned, and the search ends
\* with ErrMaxYearLimit exactly on such a candidate.
C15_Horizon ==
    \A p \in Callers :
        /\ (Searching(p) \/ Returned(p) \/ Failed(p)) => st[p].maxYear = HorizonYear(p)
        /\ st[p].at \in {"month", "day", "hour", "minute", "done"}
               => Year(st[p].t, s.tz) <= HorizonYear(p)
        /\ Failed(p) => Year(st[p].t, s.tz) > HorizonYear(p)

\* a search that a stage's carry took past the horizon ended with ErrMaxYearLimit
C15_Witness ==
    \E p \in Callers :
        Failed(p) /\ st[p].resetted /\ Year(st[p].t, s.tz) = HorizonYear(p) + 1

\* C16: the candidate at the loop label is strictly later at every restart
\* than at the previous pass: between two passes no step of the search
\* moves the candidate backwards, and every step that goes back to the loop
\* label moves it strictly forwards.
C16_RestartLater ==
    [][\A p \in Callers :
          (Searching(p) /\ st'[p] # st[p]) =>
              /\ st'[p].t >= st[p].t
              /\ st'[p].at = "loop" => st'[p].t > st[p].t]_vars

\* the search is back at the loop label after the carry or jump of a stage
C16_Witness ==
    \E p \in Callers :
        st[p].at = "loop" /\ st[p].resetted /\ st[p].t > FirstCandidate(ref[p])

\* schedule c with bit 24 of the hour bitset cleared
WithoutHour24(c) == [c EXCEPT !.hour = @ \ {24}]

\* C17: for a schedule whose hour bitset holds 24 and some hour in 0-23,
\* every call of Next ends as it ends for the same schedule with bit 24
\* cleared: the same instant, or ErrMaxYearLimit in both.
C17_Hour24Harmless ==
    \A p \in Callers :
        ((Returned(p) \/ Failed(p)) /\ 24 \in s.hour /\ s.hour \cap (0..23) # {}) =>
            LET cleared == NextAlone(WithoutHour24(s), ref[p])
            IN  st[p].at = cleared.at /\ (Returned(p) => st[p].t = cleared.t)

\* a call returned after the hour scan stopped at bit 24: no allowed hour
\* was left on the first candidate's day, so the result is on a later day
C17_Witness ==
    \E p \in Callers :
        /\ Returned(p) /\ s.hour = {6, 12, 18, 24}
        /\ Hour(FirstCandidate(ref[p]), s.tz) > 18
        /\ LocalDay(st[p].t, s.tz) > LocalDay(FirstCandidate(ref[p]), s.tz)

\* C18: on the same schedule and reference instant, Next of cron.go
\* (caller 1) and the unit-by-unit Next of cron_test.go (caller 2) end
\* alike: the same instant, or ErrMaxYearLimit in both.
C18_SameAsUnitIncrement ==
    ((Returned(1) \/ Failed(1)) /\ (Returned(2) \/ Failed(2))) =>
        /\ st[1].at = st[2].at
        /\ Returned(1) => st[1].t = st[2].t

====
